---- MODULE Spec2Model ----
(***************************************************************************)
(* The Helia CID calculator component (src/src/App.tsx): its React state,  *)
(* the backend initialisation effect, the file selection handler and the   *)
(* asynchronous calculateCIDs callback, with the per-file byte reads and   *)
(* the importer's record stream as separate steps.                         *)
(*                                                                         *)
(* A path is the sequence of its '/'-separated components, so "d/s/c.txt"  *)
(* is <<"d", "s", "c.txt">> and the empty path "" is << >>.  File content  *)
(* is a sequence of bytes.                                                 *)
(***************************************************************************)
EXTENDS Integers, Sequences, FiniteSets, TLC

VARIABLES files, results, isProcessing, error, heliaInstance,
          initPc, tagsKind, run, pub, lastOp

vars == <<files, results, isProcessing, error, heliaInstance,
          initPc, tagsKind, run, pub, lastOp>>

(***************************************************************************)
(* Bounds and inputs                                                       *)
(***************************************************************************)
\* Largest number of files in one selection.
MaxFiles == 2

\* Files offered by the plain file input: webkitRelativePath is empty.
IndividualFiles ==
    { [name |-> "a.txt", webkitRelativePath |-> << >>, content |-> << >>],
      [name |-> "b.txt", webkitRelativePath |-> << >>, content |-> <<1>>],
      [name |-> "c.txt", webkitRelativePath |-> << >>, content |-> <<1, 2>>] }

\* Files offered by the folder input: webkitRelativePath starts with the folder.
FolderFiles ==
    { [name |-> "a.txt", webkitRelativePath |-> <<"d", "a.txt">>, content |-> <<1>>],
      [name |-> "b.txt", webkitRelativePath |-> <<"d", "b.txt">>, content |-> << >>],
      [name |-> "c.txt", webkitRelativePath |-> <<"d", "s", "c.txt">>, content |-> <<2>>] }

Range(s) == { s[i] : i \in 1..Len(s) }

\* Sequences over S without repetition, of length at most n.
RECURSIVE DistinctSeqs(_, _)
DistinctSeqs(S, n) ==
    IF n = 0 THEN { << >> }
    ELSE LET shorter == DistinctSeqs(S, n - 1)
             longest == { s \in shorter : Len(s) = n - 1 }
         IN  shorter \cup
             UNION { { Append(s, x) : x \in S \ Range(s) } : s \in longest }

\* What event.target.files can hold: nothing, or files of one of the inputs.
Selections ==
    DistinctSeqs(IndividualFiles, MaxFiles) \cup DistinctSeqs(FolderFiles, MaxFiles)

(***************************************************************************)
(* Error messages                                                          *)
(***************************************************************************)
NoError == ""
SelectFilesFirst == "Please select files first"
StillInitializing == "Helia is still initializing. Please wait a moment and try again."
FailedToInitialize == "Failed to initialize Helia: "
ErrorCalculating == "Error calculating CIDs: "

(***************************************************************************)
(* calculateCIDs: the pure parts                                           *)
(***************************************************************************)
\* path.includes("/"): the path has more than one component.
Includes(path) == Len(path) > 1

\* file.webkitRelativePath || file.name
PathOf(file) ==
    IF file.webkitRelativePath # << >> THEN file.webkitRelativePath
    ELSE <<file.name>>

\* The element files.map builds for one file once its bytes are read.
FileEntry(file) == [path |-> PathOf(file), content |-> file.content]

\* Variant: the entries collected in the order the reads completed.
fileEntriesByCompletion(r) ==
    [k \in 1..Len(r.files) |-> FileEntry(r.files[r.readOrder[k]])]

\* Promise.all over files.map: the entries in the order of the captured file
\* list, whatever order the reads completed in (r.readOrder).
fileEntries(r) == [i \in 1..Len(r.files) |-> FileEntry(r.files[i])]

\* Variant: wrapping decided by the entry count alone.
WrapOnlyMany(entries) == Len(entries) > 1

\* wrapWithDirectory of kuboCompatibleOptions.
WrapWithDirectory(entries) ==
    Len(entries) > 1 \/ \E i \in 1..Len(entries) : Includes(entries[i].path)

kuboCompatibleOptions(entries) ==
    [cidVersion |-> 1, rawLeaves |-> TRUE, trickle |-> FALSE,
     maxChunkSize |-> 262144,
     wrapWithDirectory |-> WrapWithDirectory(entries)]

\* The condition of the single-file branch.
UseAddBytes(entries) == Len(entries) = 1 /\ ~Includes(entries[1].path)

\* entry.type || "file"
Undefined == "undefined"
TypeOrFile(t) == IF t = Undefined THEN "file" ELSE t

(***************************************************************************)
(* The importer (Helia UnixFS), at its interface                           *)
(***************************************************************************)
\* A CID: codec, the bytes of a raw leaf, the name-sorted links of a directory.
RawCid(content) == [codec |-> "raw", data |-> content, links |-> {}]
DirCid(links) == [codec |-> "dag-pb", data |-> << >>, links |-> links]

\* cid.toString(): the multibase-prefixed text form.
CidToString(cid) == [multibase |-> "b", cid |-> cid]

IsPrefix(p, q) == Len(p) <= Len(q) /\ SubSeq(q, 1, Len(p)) = p

\* fs.addBytes(content, options): the CID of the file's root node.
AddBytes(content, options) == RawCid(content)

\* Names of the immediate children of directory p.
ChildNames(p, entries) ==
    { entries[i].path[Len(p) + 1] :
        i \in { j \in 1..Len(entries) :
                  IsPrefix(p, entries[j].path) /\ Len(entries[j].path) > Len(p) } }

IsFilePath(p, entries) == \E i \in 1..Len(entries) : entries[i].path = p

\* The CID of the node at path p: a file's root node, or the directory whose
\* links are its immediate children by name.
RECURSIVE NodeCid(_, _)
NodeCid(p, entries) ==
    IF IsFilePath(p, entries)
    THEN RawCid(entries[CHOOSE i \in 1..Len(entries) : entries[i].path = p].content)
    ELSE DirCid({ [name |-> n, cid |-> NodeCid(Append(p, n), entries)] :
                    n \in ChildNames(p, entries) })

\* Cumulative size below path p: the sum of the descendant files' lengths.
RECURSIVE SizeFrom(_, _, _)
SizeFrom(p, entries, i) ==
    IF i > Len(entries) THEN 0
    ELSE (IF IsPrefix(p, entries[i].path) THEN Len(entries[i].content) ELSE 0)
         + SizeFrom(p, entries, i + 1)

\* Names of the subdirectories of p, in the order the entries introduce them.
RECURSIVE ChildDirs(_, _, _, _)
ChildDirs(p, entries, i, acc) ==
    IF i > Len(entries) THEN acc
    ELSE LET q == entries[i].path
         IN  IF IsPrefix(p, q) /\ Len(q) > Len(p) + 1 /\ q[Len(p) + 1] \notin Range(acc)
             THEN ChildDirs(p, entries, i + 1, Append(acc, q[Len(p) + 1]))
             ELSE ChildDirs(p, entries, i + 1, acc)

\* The directories from p downwards in the order they are flushed: every
\* subdirectory before its parent.
RECURSIVE Flush(_, _)
RECURSIVE FlushChildren(_, _, _, _)
Flush(p, entries) ==
    FlushChildren(p, entries, ChildDirs(p, entries, 1, << >>), 1) \o <<p>>
FlushChildren(p, entries, names, k) ==
    IF k > Len(names) THEN << >>
    ELSE Flush(Append(p, names[k]), entries) \o FlushChildren(p, entries, names, k + 1)

\* The directory paths addAll reports: with wrapWithDirectory the whole tree
\* up to the synthetic root "", without it only the trees below the root.
DirPaths(entries, options) ==
    IF options.wrapWithDirectory THEN Flush(<< >>, entries)
    ELSE FlushChildren(<< >>, entries, ChildDirs(<< >>, entries, 1, << >>), 1)

\* fs.addAll(entries, options): one record per file in the order given, then
\* the directories.  kinds says whether the records carry a type.
AddAll(entries, options, kinds) ==
    LET dirs == DirPaths(entries, options)
    IN  [i \in 1..Len(entries) |->
            [path |-> entries[i].path,
             cid  |-> RawCid(entries[i].content),
             size |-> Len(entries[i].content),
             type |-> IF kinds THEN "file" ELSE Undefined]]
        \o
        [k \in 1..Len(dirs) |->
            [path |-> dirs[k],
             cid  |-> NodeCid(dirs[k], entries),
             size |-> SizeFrom(dirs[k], entries, 1),
             type |-> IF kinds THEN "directory" ELSE Undefined]]

\* The record calculateCIDs pushes for one entry addAll yields.
ImportRecord(entry) ==
    [path |-> entry.path, cid |-> CidToString(entry.cid),
     size |-> entry.size, type |-> TypeOrFile(entry.type)]

\* Variant: the single-file record without the content's length.
SingleFileRecordNoSize(entry, options) ==
    [path |-> entry.path, cid |-> CidToString(AddBytes(entry.content, options)),
     size |-> 0, type |-> "file"]

\* The record calculateCIDs pushes in the single-file branch.
SingleFileRecord(entry, options) ==
    [path |-> entry.path, cid |-> CidToString(AddBytes(entry.content, options)),
     size |-> Len(entry.content), type |-> "file"]

(***************************************************************************)
(* Root CID display                                                        *)
(***************************************************************************)
\* Nothing is shown as the root: the section is not rendered.
NoRootDisplay ==
    [multibase |-> "", cid |-> [codec |-> "none", data |-> << >>, links |-> {}]]

IsRootCandidate(r) == r.path = << >> \/ r.type = "directory"

\* results.find(r => r.path === "" || r.type === "directory")?.cid
\*   || results[results.length - 1]?.cid, shown when results.length > 1.
RootCidDisplay(rs) ==
    IF Len(rs) > 1
    THEN LET hits == { i \in 1..Len(rs) : IsRootCandidate(rs[i]) }
         IN  IF hits # {}
             THEN rs[CHOOSE i \in hits : \A j \in hits : i <= j].cid
             ELSE rs[Len(rs)].cid
    ELSE NoRootDisplay

(***************************************************************************)
(* State                                                                   *)
(***************************************************************************)
\* No invocation of calculateCIDs is in flight.
IdleRun ==
    [pc |-> "idle", files |-> << >>, readOrder |-> << >>, entries |-> << >>,
     options |-> kuboCompatibleOptions(<< >>), out |-> << >>,
     importResults |-> << >>, abandoned |-> FALSE]

\* pub is the run whose records results holds (IdleRun while results is
\* empty) and lastOp the step taken last; nothing reads them.
\* useState initial values; the effect has called initHelia, which is at its
\* await.  tagsKind is a property of the importer the build links: whether
\* the records addAll yields carry a type.
Init ==
    /\ files = << >>
    /\ results = << >>
    /\ isProcessing = FALSE
    /\ error = NoError
    /\ heliaInstance = FALSE
    /\ initPc = "pending"
    /\ tagsKind \in BOOLEAN
    /\ run = IdleRun
    /\ pub = IdleRun
    /\ lastOp = "mount"

(***************************************************************************)
(* initHelia                                                               *)
(***************************************************************************)
\* createHelia() resolved: setHeliaInstance({helia, fs}).
InitHeliaResolve ==
    /\ initPc = "pending"
    /\ initPc' = "done"
    /\ heliaInstance' = TRUE
    /\ lastOp' = "initResolve"
    /\ UNCHANGED <<files, results, isProcessing, error, tagsKind, run, pub>>

\* createHelia() rejected: the catch sets the error.
InitHeliaReject ==
    /\ initPc = "pending"
    /\ initPc' = "failed"
    /\ error' = FailedToInitialize
    /\ lastOp' = "initReject"
    /\ UNCHANGED <<files, results, isProcessing, heliaInstance, tagsKind, run, pub>>

(***************************************************************************)
(* handleFileSelection                                                     *)
(***************************************************************************)
\* The handler touches files, results and error only: an invocation of
\* calculateCIDs in flight keeps running on the file list it captured
\* (abandoned records that its selection was replaced).
HandleFileSelection(selectedFiles) ==
    /\ files' = selectedFiles
    /\ results' = << >>
    /\ error' = NoError
    /\ run' = IF run.pc # "idle" THEN [run EXCEPT !.abandoned = TRUE] ELSE run
    /\ pub' = IdleRun
    /\ lastOp' = "select"
    /\ UNCHANGED <<isProcessing, heliaInstance, initPc, tagsKind>>

(***************************************************************************)
(* calculateCIDs                                                           *)
(***************************************************************************)
\* files.length === 0: the error is set and the callback returns.
CalculateCIDsEmpty ==
    /\ files = << >>
    /\ error' = SelectFilesFirst
    /\ lastOp' = "calcEmpty"
    /\ UNCHANGED <<files, results, isProcessing, heliaInstance, initPc, tagsKind, run, pub>>

\* Variant: the return leaves without the finally.
CalculateCIDsNotReadyNoFinally ==
    /\ files # << >>
    /\ ~heliaInstance
    /\ results' = << >>
    /\ error' = StillInitializing
    /\ isProcessing' = TRUE
    /\ pub' = IdleRun
    /\ lastOp' = "calcNotReady"
    /\ UNCHANGED <<files, heliaInstance, initPc, tagsKind, run>>

\* Variant: the callback sees the heliaInstance of the first render (null).
CalculateCIDsNotReadyStale ==
    /\ files # << >>
    /\ results' = << >>
    /\ error' = StillInitializing
    /\ isProcessing' = FALSE
    /\ pub' = IdleRun
    /\ lastOp' = "calcNotReady"
    /\ UNCHANGED <<files, heliaInstance, initPc, tagsKind, run>>

\* !heliaInstance: setIsProcessing(true), setError(""), setResults([]), then
\* the not-ready error, the return and the finally, all before the first await.
CalculateCIDsNotReady ==
    /\ files # << >>
    /\ ~heliaInstance
    /\ results' = << >>
    /\ error' = StillInitializing
    /\ isProcessing' = FALSE
    /\ pub' = IdleRun
    /\ lastOp' = "calcNotReady"
    /\ UNCHANGED <<files, heliaInstance, initPc, tagsKind, run>>

\* The backend is there: the state is reset and files.map starts one
\* arrayBuffer() read per file of the captured list.
CalculateCIDsStart ==
    /\ files # << >>
    /\ heliaInstance
    /\ isProcessing' = TRUE
    /\ error' = NoError
    /\ results' = << >>
    /\ run' = [IdleRun EXCEPT !.pc = "reading", !.files = files]
    /\ pub' = IdleRun
    /\ lastOp' = "calcStart"
    /\ UNCHANGED <<files, heliaInstance, initPc, tagsKind>>

\* catch and finally of calculateCIDs.
Catch ==
    /\ error' = ErrorCalculating
    /\ isProcessing' = FALSE
    /\ run' = IdleRun
    /\ UNCHANGED <<files, results, heliaInstance, initPc, tagsKind, pub>>

\* setResults(importResults) and the finally, for the run r that ends.
Publish(r) ==
    /\ results' = r.importResults
    /\ isProcessing' = FALSE
    /\ run' = IdleRun
    /\ pub' = r
    /\ UNCHANGED <<files, error, heliaInstance, initPc, tagsKind>>

\* The run once every read has resolved: the entries, the options, and in the
\* addAll branch the records the importer is going to yield.
AfterReads(r) ==
    LET entries == fileEntries(r)
        options == kuboCompatibleOptions(entries)
    IN  [r EXCEPT !.entries = entries,
                  !.options = options,
                  !.pc = IF UseAddBytes(entries) THEN "addBytes" ELSE "addAll",
                  !.out = IF UseAddBytes(entries) THEN << >>
                          ELSE AddAll(entries, options, tagsKind)]

\* file.arrayBuffer() of file i resolved; the last one resolves Promise.all.
ReadResolve(i) ==
    /\ run.pc = "reading"
    /\ i \in 1..Len(run.files)
    /\ i \notin Range(run.readOrder)
    /\ LET r == [run EXCEPT !.readOrder = Append(@, i)]
       IN  run' = IF Len(r.readOrder) = Len(r.files) THEN AfterReads(r) ELSE r
    /\ lastOp' = "readResolve"
    /\ UNCHANGED <<files, results, isProcessing, error, heliaInstance, initPc, tagsKind, pub>>

\* file.arrayBuffer() of file i rejected: Promise.all rejects.
ReadReject(i) ==
    /\ run.pc = "reading"
    /\ i \in 1..Len(run.files)
    /\ i \notin Range(run.readOrder)
    /\ Catch
    /\ lastOp' = "readReject"

\* fs.addBytes resolved: the record is pushed and the results are set.
AddBytesResolve ==
    /\ run.pc = "addBytes"
    /\ Publish([run EXCEPT !.importResults =
                              <<SingleFileRecord(run.entries[1], run.options)>>])
    /\ lastOp' = "publish"

\* fs.addBytes rejected.
AddBytesReject ==
    /\ run.pc = "addBytes"
    /\ Catch
    /\ lastOp' = "importReject"

\* Variant: the loop body also sets the results after each push.
AddAllYieldPublishing ==
    /\ run.pc = "addAll"
    /\ Len(run.importResults) < Len(run.out)
    /\ run' = [run EXCEPT !.importResults =
                              Append(@, ImportRecord(run.out[Len(@) + 1]))]
    /\ results' = run'.importResults
    /\ lastOp' = "yield"
    /\ UNCHANGED <<files, isProcessing, error, heliaInstance, initPc, tagsKind, pub>>

\* fs.addAll yielded its next entry: the loop body pushes the record.
AddAllYield ==
    /\ run.pc = "addAll"
    /\ Len(run.importResults) < Len(run.out)
    /\ run' = [run EXCEPT !.importResults =
                              Append(@, ImportRecord(run.out[Len(@) + 1]))]
    /\ lastOp' = "yield"
    /\ UNCHANGED <<files, results, isProcessing, error, heliaInstance, initPc, tagsKind, pub>>

\* fs.addAll is exhausted: the results are set.
AddAllDone ==
    /\ run.pc = "addAll"
    /\ Len(run.importResults) = Len(run.out)
    /\ Publish(run)
    /\ lastOp' = "publish"

\* fs.addAll threw, before or between entries.
AddAllThrow ==
    /\ run.pc = "addAll"
    /\ Catch
    /\ lastOp' = IF run.importResults # << >> THEN "importRejectPartial"
                  ELSE "importReject"

(***************************************************************************)
(* The component                                                           *)
(***************************************************************************)
\* disabled={files.length === 0 || isProcessing}
ButtonDisabled == files = << >> \/ isProcessing

\* A click on the Calculate button.
ClickNotReady == ~ButtonDisabled /\ CalculateCIDsNotReady
ClickStart == ~ButtonDisabled /\ CalculateCIDsStart

Background ==
    \/ InitHeliaResolve
    \/ InitHeliaReject
    \/ \E selectedFiles \in Selections : HandleFileSelection(selectedFiles)
    \/ \E i \in 1..MaxFiles : ReadResolve(i)
    \/ \E i \in 1..MaxFiles : ReadReject(i)
    \/ AddBytesResolve
    \/ AddBytesReject
    \/ AddAllYield
    \/ AddAllDone
    \/ AddAllThrow

Next == Background \/ ClickNotReady \/ ClickStart

Spec == Init /\ [][Next]_vars

\* The callback invoked whatever the button's state, one run at a time.
InvokeEmpty == CalculateCIDsEmpty
InvokeNotReady == run.pc = "idle" /\ CalculateCIDsNotReady
InvokeStart == run.pc = "idle" /\ CalculateCIDsStart

NextCallback == Background \/ InvokeEmpty \/ InvokeNotReady \/ InvokeStart

SpecCallback == Init /\ [][NextCallback]_vars

TypeOK ==
    /\ files \in Selections
    /\ isProcessing \in BOOLEAN
    /\ heliaInstance \in BOOLEAN
    /\ error \in {NoError, SelectFilesFirst, StillInitializing, FailedToInitialize, ErrorCalculating}
    /\ run.pc \in {"idle", "reading", "addBytes", "addAll"}
    /\ isProcessing <=> run.pc # "idle"

(***************************************************************************)
(* Properties                                                              *)
(***************************************************************************)
\* The record a file of a run must have produced.
HasFileRecord(rs, file) ==
    \E k \in 1..Len(rs) :
        /\ rs[k].path = PathOf(file)
        /\ rs[k].cid = CidToString(RawCid(file.content))

\* C1: no partial success.  A run whose read or import failed ends with the
\* error set and no results; nothing is published while a run is in flight;
\* and whenever results is non-empty it is the output of a run that read
\* every file it had and imported each of them.
NoPartialSuccess ==
    /\ lastOp \in {"readReject", "importReject", "importRejectPartial"} =>
           error = ErrorCalculating /\ results = << >> /\ ~isProcessing
    /\ run.pc # "idle" => results = << >>
    /\ results # << >> =>
           /\ pub.pc \in {"addBytes", "addAll"}
           /\ pub.files # << >>
           /\ Range(pub.readOrder) = 1..Len(pub.files)
           /\ \A i \in 1..Len(pub.files) : HasFileRecord(results, pub.files[i])

\* A run fails after the importer has yielded its first records.
PartialImportDiscarded ==
    /\ lastOp = "importRejectPartial"
    /\ error = ErrorCalculating
    /\ results = << >>

\* C2: calculateCIDs with files selected and no backend fails at once with
\* the not-ready message: no import is started, results is empty and
\* isProcessing is false when the call returns.
NotReadyFailsFast ==
    lastOp = "calcNotReady" =>
        /\ files # << >>
        /\ error = StillInitializing
        /\ results = << >>
        /\ ~isProcessing
        /\ run.pc = "idle"

NotReadyCallMade ==
    /\ lastOp = "calcNotReady"
    /\ ~heliaInstance
    /\ initPc = "pending"

\* C3: the wrapping flag is set exactly when the run has more than one entry
\* or an entry whose path contains '/', and the addAll branch is taken exactly
\* when the flag is set, the addBytes branch exactly when it is not.
WrappingMatchesBranch ==
    run.pc \in {"addBytes", "addAll"} =>
        /\ run.options.wrapWithDirectory <=>
               (Len(run.files) > 1
                \/ \E i \in 1..Len(run.files) : Includes(PathOf(run.files[i])))
        /\ run.options.wrapWithDirectory <=> run.pc = "addAll"
        /\ ~run.options.wrapWithDirectory <=> run.pc = "addBytes"

\* One entry with a nested path is imported through addAll with wrapping.
SingleNestedEntryWrapped ==
    /\ run.pc = "addAll"
    /\ Len(run.files) = 1
    /\ run.options.wrapWithDirectory

\* Every CID the component presents: the records' and the root section's.
PresentedCids(rs) ==
    { rs[k].cid : k \in 1..Len(rs) }
        \cup (IF RootCidDisplay(rs) = NoRootDisplay THEN {} ELSE {RootCidDisplay(rs)})

\* C4: a successful run of one entry whose path has no '/' shows exactly one
\* record, with the entry's path, type file and the content's byte length; no
\* directory record exists and the file's CID is the only CID presented.
SingleFileIsItsOwnRoot ==
    (results # << >> /\ Len(pub.files) = 1 /\ ~Includes(PathOf(pub.files[1]))) =>
        /\ results = << [path |-> PathOf(pub.files[1]),
                         cid  |-> CidToString(RawCid(pub.files[1].content)),
                         size |-> Len(pub.files[1].content),
                         type |-> "file"] >>
        /\ PresentedCids(results) = {CidToString(RawCid(pub.files[1].content))}

\* Single top-level files have published, a non-empty one here.
SingleFilePublished ==
    /\ results # << >>
    /\ Len(pub.files) = 1
    /\ ~Includes(PathOf(pub.files[1]))
    /\ pub.files[1].content # << >>

AbandonedRunEmitsNothing ==
    results # << >> => ~pub.abandoned

\* C7: the first records of a successful run are those of its files, in the
\* order of the selection, and the root record, if there is one, is the last
\* record and comes after them.
ResultsInSelectionOrder ==
    results # << >> =>
        /\ Len(results) >= Len(pub.files)
        /\ \A i \in 1..Len(pub.files) :
               /\ results[i].path = PathOf(pub.files[i])
               /\ results[i].cid = CidToString(RawCid(pub.files[i].content))
        /\ \A k \in 1..Len(results) :
               results[k].path = << >> => k = Len(results) /\ k > Len(pub.files)

\* The reads of a two-file run completed in reverse and the run published
\* its records with the root record.
ReadsCompletedOutOfOrder ==
    /\ results # << >>
    /\ pub.readOrder = <<2, 1>>
    /\ results[Len(results)].path = << >>

InitFailureStaysVisible ==
    initPc = "failed" => error = FailedToInitialize

\* One step under C10: the backend never becomes not-ready again; a run only ever starts by
\* an invocation of calculateCIDs (nothing retries after a not-ready failure);
\* and an invocation made with the backend ready and files selected starts
\* the run instead of failing with not-ready.
NotReadyRetryStep ==
    /\ heliaInstance => heliaInstance'
    /\ (run.pc = "idle" /\ run'.pc # "idle") => lastOp' = "calcStart"
    /\ lastOp' = "calcNotReady" => ~heliaInstance /\ run'.pc = "idle"
    /\ lastOp' = "calcStart" =>
           /\ heliaInstance
           /\ run'.pc = "reading"
           /\ isProcessing'
           /\ error' = NoError
\* C10: every step of the component is such a step.
NotReadyIsRetryable == [][NotReadyRetryStep]_vars

\* An invocation with the backend ready has started its reads.
ReadyInvocationStarted ==
    /\ lastOp = "calcStart"
    /\ heliaInstance
    /\ run.pc = "reading"

====
